---------------------------- MODULE Spec2Model ----------------------------
(***************************************************************************)
(* clariFi: the Home page (transaction list, summary, active tab), the     *)
(* UploadZone, the TransactionTable filter/sort/paginate pipeline and the  *)
(* AnalyticsDashboard aggregations.                                        *)
(*                                                                         *)
(* Strings are sequences of one-character strings.  Amounts are counted in *)
(* cents.  Instants are counted in minutes since the epoch.  An optional   *)
(* record field that is absent is a field the record does not have.        *)
(***************************************************************************)
EXTENDS Integers, Sequences, FiniteSets, TLC

(***************************************************************************)
(* Strings                                                                 *)
(***************************************************************************)
UpperChars ==
  <<"A","B","C","D","E","F","G","H","I","J","K","L","M",
    "N","O","P","Q","R","S","T","U","V","W","X","Y","Z">>

LowerChars ==
  <<"a","b","c","d","e","f","g","h","i","j","k","l","m",
    "n","o","p","q","r","s","t","u","v","w","x","y","z">>

IndexIn(c, chars) == CHOOSE i \in 1..Len(chars) : chars[i] = c

OtherChars == {" ", ".", "-", "_"}

Chars ==
  {UpperChars[i] : i \in 1..Len(UpperChars)}
    \cup {LowerChars[i] : i \in 1..Len(LowerChars)} \cup OtherChars

IsUpper(c) == \E i \in 1..Len(UpperChars) : UpperChars[i] = c

IsLower(c) == \E i \in 1..Len(LowerChars) : LowerChars[i] = c

\* UTF-16 code unit of each character
CharCode ==
  [c \in Chars |->
     IF IsUpper(c) THEN 64 + IndexIn(c, UpperChars)
     ELSE IF IsLower(c) THEN 96 + IndexIn(c, LowerChars)
     ELSE IF c = " " THEN 32
     ELSE IF c = "-" THEN 45
     ELSE IF c = "." THEN 46
     ELSE 95]

toLowerCaseChar ==
  [c \in Chars |-> IF IsUpper(c) THEN LowerChars[IndexIn(c, UpperChars)] ELSE c]

\* toLowerCase that changes nothing
toLowerCaseIdentity(s) == s

toLowerCase(s) == [i \in 1..Len(s) |-> toLowerCaseChar[s[i]]]

includes(s, sub) ==
  \E i \in 0..(Len(s) - Len(sub)) : SubSeq(s, i + 1, i + Len(sub)) = sub

endsWith(s, suffix) ==
  /\ Len(suffix) <= Len(s)
  /\ SubSeq(s, Len(s) - Len(suffix) + 1, Len(s)) = suffix

RECURSIVE StrLessFrom(_, _, _)
StrLessFrom(a, b, i) ==
  IF i > Len(b) THEN FALSE
  ELSE IF i > Len(a) THEN TRUE
  ELSE IF a[i] # b[i] THEN CharCode[a[i]] < CharCode[b[i]]
  ELSE StrLessFrom(a, b, i + 1)

\* a < b on strings: lexicographic on code units, a proper prefix is smaller
StrLess(a, b) == StrLessFrom(a, b, 1)

Abs(n) == IF n < 0 THEN -n ELSE n

Min(a, b) == IF a < b THEN a ELSE b

Max(a, b) == IF a > b THEN a ELSE b

\* Math.ceil(n / d) for n >= 0, d > 0
Ceil(n, d) == (n + d - 1) \div d

(***************************************************************************)
(* Dates.  A date string "YYYY-MM-DD" is the record [y, m, d]; the Date     *)
(* constructor reads this date-only form as midnight UTC, and the getters  *)
(* getFullYear / getMonth answer in the local time zone.                   *)
(***************************************************************************)
MinutesPerDay == 1440

\* days from 1970-01-01 to the civil date y-m-d (proleptic Gregorian)
DaysFromCivil(y, m, d) ==
  LET yy  == IF m <= 2 THEN y - 1 ELSE y
      era == yy \div 400
      yoe == yy - era * 400
      mp  == IF m > 2 THEN m - 3 ELSE m + 9
      doy == (153 * mp + 2) \div 5 + d - 1
      doe == yoe * 365 + yoe \div 4 - yoe \div 100 + doy
  IN  era * 146097 + doe - 719468

\* the civil date of a day number
CivilFromDays(z0) ==
  LET z   == z0 + 719468
      era == z \div 146097
      doe == z - era * 146097
      yoe == (doe - doe \div 1460 + doe \div 36524 - doe \div 146096) \div 365
      doy == doe - (365 * yoe + yoe \div 4 - yoe \div 100)
      mp  == (5 * doy + 2) \div 153
      d   == doy - (153 * mp + 2) \div 5 + 1
      m   == IF mp < 10 THEN mp + 3 ELSE mp - 9
      y   == yoe + era * 400 + (IF m <= 2 THEN 1 ELSE 0)
  IN  [y |-> y, m |-> m, d |-> d]

\* new Date("YYYY-MM-DD").getTime(), in minutes
getTime(date) == DaysFromCivil(date.y, date.m, date.d) * MinutesPerDay

\* the local calendar date of an instant, in a zone offset minutes east of UTC
LocalDate(instant, offset) == CivilFromDays((instant + offset) \div MinutesPerDay)

(***************************************************************************)
(* Transactions (lib/types.ts)                                             *)
(***************************************************************************)
hasCategory(t) == "category" \in DOMAIN t

\* transaction.category || "" : absent and empty are both falsy
categoryOrEmpty(t) == IF hasCategory(t) THEN t.category ELSE <<>>

(***************************************************************************)
(* Input data                                                              *)
(***************************************************************************)
sGroceryStore == <<"G","r","o","c","e","r","y"," ","S","t","o","r","e">>

sSalaryDeposit == <<"S","a","l","a","r","y"," ","D","e","p","o","s","i","t">>

sGasStation == <<"G","a","s"," ","S","t","a","t","i","o","n">>

sCoffeeShop == <<"C","o","f","f","e","e"," ","S","h","o","p">>

sFoodTruck == <<"F","O","O","D"," ","t","r","u","c","k">>

sFood == <<"F","o","o","d">>

sFoodLower == <<"f","o","o","d">>

sIncome == <<"I","n","c","o","m","e">>

sTransportation == <<"T","r","a","n","s","p","o","r","t","a","t","i","o","n">>

sUncategorized == <<"U","n","c","a","t","e","g","o","r","i","z","e","d">>

sGrocery == <<"g","r","o","c","e","r","y">>

sFoodUpper == <<"F","O","O","D">>

Date(y, m, d) == [y |-> y, m |-> m, d |-> d]

\* the four rows of the table test and of the aggregation scenario
Tx1 == [id |-> 1, date |-> Date(2024, 1, 15), description |-> sGroceryStore,
        amount |-> -8550, category |-> sFood, type |-> "debit"]

Tx2 == [id |-> 2, date |-> Date(2024, 1, 14), description |-> sSalaryDeposit,
        amount |-> 250000, category |-> sIncome, type |-> "credit"]

Tx3 == [id |-> 3, date |-> Date(2024, 1, 13), description |-> sGasStation,
        amount |-> -4525, category |-> sTransportation, type |-> "debit"]

Tx4 == [id |-> 4, date |-> Date(2024, 1, 12), description |-> sCoffeeShop,
        amount |-> -575, category |-> sFood, type |-> "debit"]

\* rows without a category, with an empty one, with other letter case and
\* with the literal category "Uncategorized"; a positive debit, a negative
\* credit; dates on the first and the last day of a month
Tx5 == [id |-> 5, date |-> Date(2024, 2, 1), description |-> sFoodTruck,
        amount |-> 575, type |-> "debit"]

Tx6 == [id |-> 6, date |-> Date(2024, 3, 1), description |-> sGasStation,
        amount |-> -4525, category |-> <<>>, type |-> "debit"]

Tx7 == [id |-> 7, date |-> Date(2023, 12, 31), description |-> sCoffeeShop,
        amount |-> -8550, category |-> sFoodLower, type |-> "credit"]

Tx8 == [id |-> 8, date |-> Date(2024, 1, 1), description |-> sGroceryStore,
        amount |-> -250000, category |-> sUncategorized, type |-> "debit"]

MockTransactions == <<Tx1, Tx2, Tx3, Tx4>>

\* a generated row, after the pagination test's Array.from({length: n})
ManyTx(i) ==
  LET base == [id |-> 100 + i,
               date |-> Date(2024, 1 + (((i - 1) \div 28) % 12), 1 + ((i - 1) % 28)),
               description |-> IF i > 100 THEN sGasStation ELSE sFood,
               amount |-> -(i * 10),
               type |-> IF i % 5 = 0 THEN "credit" ELSE "debit"]
  IN  IF i > 100 THEN base
      ELSE base @@ [category |-> IF i % 2 = 0 THEN sIncome ELSE sFoodLower]

ManyTransactions(n) == [i \in 1..n |-> ManyTx(i)]

(***************************************************************************)
(* State                                                                   *)
(***************************************************************************)
VARIABLES
  \* Home (app/page.tsx)
  transactions, summary, activeTab,
  \* Home after a render that threw
  crashed,
  \* UploadZone (components/upload-zone.tsx): the state of the mounted
  \* instance; the defaults while no instance is mounted
  isDragOver, file, isUploading, error,
  \* the fetch calls that have not settled yet, and the file of every
  \* request issued so far, in order
  inflight, sent,
  \* TransactionTable (components/transaction-table.tsx)
  searchTerm, categoryFilter, typeFilter, sortField, sortOrder, currentPage,
  filteredAndSorted,
  \* AnalyticsDashboard (components/analytics-dashboard.tsx) and the time
  \* zone of the browser, in minutes east of UTC
  tzOffset, dashboard, categoryData, timelineData,
  \* the call of the API client (lib/api.ts) and the request of the upload
  \* proxy route (app/api/transactions/upload/route.ts) under way
  apiCall, proxy,
  \* useTheme (hooks/use-theme.ts): the state of the hook, the item "theme"
  \* of localStorage, whether the document root has the class "dark", and
  \* whether the system prefers dark
  themeHook, storedTheme, rootDark, prefersDark,
  \* the id of the upload request of whose response Home holds the list and
  \* the summary; 0 before any
  applied

homeVars == <<transactions, summary, activeTab, crashed>>

zoneVars == <<isDragOver, file, isUploading, error, inflight, sent>>

tableVars == <<searchTerm, categoryFilter, typeFilter, sortField, sortOrder,
               currentPage, filteredAndSorted>>

dashVars == <<tzOffset, dashboard, categoryData, timelineData>>

themeVars == <<themeHook, storedTheme, rootDark, prefersDark>>

libVars == <<apiCall, proxy, themeVars, applied>>

vars == <<homeVars, zoneVars, tableVars, dashVars, libVars>>

(***************************************************************************)
(* TransactionTable: filter, sort, paginate                                *)
(***************************************************************************)
itemsPerPage == 50

SortFields == {"date", "description", "amount", "category"}

\* matchesFilter with the search term compared as typed
matchesFilterCaseSensitive(t, search, catFilter, tyFilter) ==
  LET matchesSearch ==
        \/ search = <<>>
        \/ includes(toLowerCase(t.description), search)
        \/ IF hasCategory(t) THEN includes(toLowerCase(t.category), search) ELSE FALSE
      matchesCategory ==
        \/ catFilter = <<>>
        \/ (hasCategory(t) /\ t.category = catFilter)
      matchesType == tyFilter = "" \/ t.type = tyFilter
  IN  matchesSearch /\ matchesCategory /\ matchesType

\* the predicate of transactions.filter
matchesFilter(t, search, catFilter, tyFilter) ==
  LET matchesSearch ==
        \/ search = <<>>
        \/ includes(toLowerCase(t.description), toLowerCase(search))
        \/ IF hasCategory(t)
           THEN includes(toLowerCase(t.category), toLowerCase(search))
           ELSE FALSE
      matchesCategory ==
        \/ catFilter = <<>>
        \/ (hasCategory(t) /\ t.category = catFilter)
      matchesType == tyFilter = "" \/ t.type = tyFilter
  IN  matchesSearch /\ matchesCategory /\ matchesType

\* filterTransactions that also leaves out the first row that passes
filterTransactionsAfterFirst(txs, search, catFilter, tyFilter) ==
  LET passing == SelectSeq(txs, LAMBDA t : matchesFilter(t, search, catFilter, tyFilter))
  IN  IF passing = <<>> THEN <<>> ELSE Tail(passing)

\* transactions.filter(...): the rows that pass, in the order of the list
filterTransactions(txs, search, catFilter, tyFilter) ==
  SelectSeq(txs, LAMBDA t : matchesFilter(t, search, catFilter, tyFilter))

\* sortKey with the amount taken as it is
sortKeySigned(t, field) ==
  IF field = "date" THEN getTime(t.date)
  ELSE IF field = "amount" THEN t.amount
  ELSE IF field = "description" THEN toLowerCase(t.description)
  ELSE toLowerCase(categoryOrEmpty(t))

\* the value the comparator compares for a row: a number for date and amount,
\* a lower-cased string otherwise
sortKey(t, field) ==
  IF field = "date" THEN getTime(t.date)
  ELSE IF field = "amount" THEN Abs(t.amount)
  ELSE IF field = "description" THEN toLowerCase(t.description)
  ELSE toLowerCase(categoryOrEmpty(t))

keyLess(field, x, y) ==
  IF field \in {"date", "amount"} THEN x < y ELSE StrLess(x, y)

\* the last three lines of the comparator: negative, positive or zero
compareKeys(aVal, bVal, field, order) ==
  IF keyLess(field, aVal, bVal) THEN (IF order = "asc" THEN -1 ELSE 1)
  ELSE IF keyLess(field, bVal, aVal) THEN (IF order = "asc" THEN 1 ELSE -1)
  ELSE 0

\* the comparator handed to filtered.sort
compareRows(a, b, field, order) ==
  compareKeys(sortKey(a, field), sortKey(b, field), field, order)

RECURSIVE merge(_, _, _, _)
\* two sorted runs of <<key, row>> pairs merged; on a tie the row of l comes
\* first.  The middle pair of l splits both runs.
merge(l, r, field, order) ==
  IF l = <<>> THEN r
  ELSE IF r = <<>> THEN l
  ELSE LET m == (Len(l) + 1) \div 2
           before == Cardinality({j \in 1..Len(r) :
                       compareKeys(r[j][1], l[m][1], field, order) < 0})
       IN  merge(SubSeq(l, 1, m - 1), SubSeq(r, 1, before), field, order)
             \o <<l[m]>>
             \o merge(SubSeq(l, m + 1, Len(l)), SubSeq(r, before + 1, Len(r)),
                      field, order)

RECURSIVE mergeSort(_, _, _)
mergeSort(pairs, field, order) ==
  IF Len(pairs) <= 1 THEN pairs
  ELSE LET mid == Len(pairs) \div 2
       IN  merge(mergeSort(SubSeq(pairs, 1, mid), field, order),
                 mergeSort(SubSeq(pairs, mid + 1, Len(pairs)), field, order),
                 field, order)

\* sortRows with the rows of equal keys in the opposite order
sortRowsTiesReversed(rows, field, order) ==
  LET n == Len(rows)
      pairs == [i \in 1..n |-> <<sortKey(rows[n + 1 - i], field), rows[n + 1 - i]>>]
      sorted == mergeSort(pairs, field, order)
  IN  [i \in 1..n |-> sorted[i][2]]

\* Array.prototype.sort with the comparator: a stable sort.  The key of a row
\* is the same at every call of the comparator, so it is computed once.
sortRows(rows, field, order) ==
  LET pairs == [i \in 1..Len(rows) |-> <<sortKey(rows[i], field), rows[i]>>]
      sorted == mergeSort(pairs, field, order)
  IN  [i \in 1..Len(rows) |-> sorted[i][2]]

\* the filteredAndSorted memo
computeFilteredAndSorted(txs, search, catFilter, tyFilter, field, order) ==
  sortRows(filterTransactions(txs, search, catFilter, tyFilter), field, order)

\* filteredAndSortedArrays with the sort applied to the list itself
filteredAndSortedArraysInPlace(txs, search, catFilter, tyFilter, field, order) ==
  LET reordered == sortRows(txs, field, order)
  IN  [transactions |-> reordered,
       filtered |-> filterTransactions(reordered, search, catFilter, tyFilter)]

\* the two arrays once the memo has run: filter returns a new array and leaves
\* the list it was called on as it is, sort reorders that new array in place
filteredAndSortedArrays(txs, search, catFilter, tyFilter, field, order) ==
  [transactions |-> txs,
   filtered |-> computeFilteredAndSorted(txs, search, catFilter, tyFilter, field, order)]

\* Array.prototype.slice(from, to) with 0 <= from
slice(rows, from, to) == SubSeq(rows, from + 1, Min(to, Len(rows)))

totalPagesOf(rows) == Ceil(Len(rows), itemsPerPage)

\* paginate with the slice started one row late
paginateOffByOne(rows, page) ==
  slice(rows, (page - 1) * itemsPerPage + 1, page * itemsPerPage)

paginate(rows, page) == slice(rows, (page - 1) * itemsPerPage, page * itemsPerPage)

totalPages == totalPagesOf(filteredAndSorted)

paginatedTransactions == paginate(filteredAndSorted, currentPage)

\* the options of the category select besides "All Categories"
categories(txs) ==
  {categoryOrEmpty(txs[i]) : i \in 1..Len(txs)} \ {<<>>}

\* the options of the type select besides "All Types"
types(txs) == {txs[i].type : i \in 1..Len(txs)}

(***************************************************************************)
(* Values of optional state                                                *)
(***************************************************************************)
\* null and undefined where the value would be a record
Null == [null |-> TRUE]

Undefined == [undefined |-> TRUE]

\* undefined where the value would be a list
UndefinedList == <<Undefined>>

\* null where the value would be an error text
NoError == "<null>"

truthy(v) == v # Null /\ v # Undefined

\* no call of the API client, no request to the proxy route
Idle == [phase |-> "idle"]

\* localStorage.getItem gives null
NoItem == "<no item>"

\* no component that uses the hook is rendered
Unmounted == [mounted |-> FALSE]

\* nothing has called the API client, the proxy route or the hook, and no
\* upload has been answered
InitLib ==
  /\ apiCall = Idle /\ proxy = Idle
  /\ themeHook = Unmounted /\ storedTheme = NoItem
  /\ rootDark = FALSE /\ prefersDark = FALSE
  /\ applied = 0

MockSummary ==
  [totalSpent |-> 13650, totalIncome |-> 250000, netAmount |-> 236350,
   transactionCount |-> 4, avgTransactionAmount |-> 65913]

(***************************************************************************)
(* TransactionTable: the handlers.  Each one ends with the re-render that  *)
(* recomputes the filteredAndSorted memo.                                  *)
(***************************************************************************)
MaxRows == 101

SearchTerms == {<<>>, sGrocery, sFoodUpper}

\* amounts of both signs and the same size, in both orders
SignedTransactions == <<Tx5, Tx8, Tx4, Tx2, Tx7, Tx1>>

TableInputs ==
  { <<>>, MockTransactions, <<Tx5, Tx1, Tx6, Tx7, Tx8, Tx3>>,
    SignedTransactions, ManyTransactions(MaxRows) }

InitTable ==
  /\ transactions \in TableInputs
  /\ summary = MockSummary
  /\ activeTab = "transactions" /\ crashed = FALSE
  /\ isDragOver = FALSE /\ file = Null /\ isUploading = FALSE /\ error = NoError
  /\ inflight = {} /\ sent = <<>>
  /\ searchTerm = <<>> /\ categoryFilter = <<>> /\ typeFilter = ""
  /\ sortField = "date" /\ sortOrder = "desc"
  /\ currentPage = 1
  /\ filteredAndSorted =
       computeFilteredAndSorted(transactions, <<>>, <<>>, "", "date", "desc")
  /\ tzOffset = 0 /\ dashboard = FALSE
  /\ categoryData = <<>> /\ timelineData = <<>>
  /\ InitLib

\* the table is rendered: by Home while the Transactions tab is chosen, of a
\* list that is not empty, or by itself with any list
tableMounted == ~crashed /\ activeTab = "transactions"

\* the render after a set-state call: the memo runs on the list of Home
rerenderTable ==
  LET arrays == filteredAndSortedArrays(transactions, searchTerm', categoryFilter',
                                        typeFilter', sortField', sortOrder')
  IN  /\ transactions' = arrays.transactions
      /\ filteredAndSorted' = arrays.filtered

setSearchTerm(value) ==
  /\ tableMounted
  /\ value # searchTerm
  /\ searchTerm' = value
  /\ UNCHANGED <<categoryFilter, typeFilter, sortField, sortOrder, currentPage>>
  /\ UNCHANGED <<summary, activeTab, crashed>>
  /\ UNCHANGED <<zoneVars, dashVars>>
  /\ rerenderTable
  /\ UNCHANGED libVars

setCategoryFilter(value) ==
  /\ tableMounted
  /\ value # categoryFilter
  /\ categoryFilter' = value
  /\ UNCHANGED <<searchTerm, typeFilter, sortField, sortOrder, currentPage>>
  /\ UNCHANGED <<summary, activeTab, crashed>>
  /\ UNCHANGED <<zoneVars, dashVars>>
  /\ rerenderTable
  /\ UNCHANGED libVars

setTypeFilter(value) ==
  /\ tableMounted
  /\ value # typeFilter
  /\ typeFilter' = value
  /\ UNCHANGED <<searchTerm, categoryFilter, sortField, sortOrder, currentPage>>
  /\ UNCHANGED <<summary, activeTab, crashed>>
  /\ UNCHANGED <<zoneVars, dashVars>>
  /\ rerenderTable
  /\ UNCHANGED libVars

\* handleSort that keeps the order when the field changes
handleSortKeepingOrder(field) ==
  /\ tableMounted
  /\ IF sortField = field
     THEN /\ sortOrder' = (IF sortOrder = "asc" THEN "desc" ELSE "asc")
          /\ UNCHANGED sortField
     ELSE /\ sortField' = field
          /\ UNCHANGED sortOrder
  /\ UNCHANGED <<searchTerm, categoryFilter, typeFilter, currentPage>>
  /\ UNCHANGED <<summary, activeTab, crashed>>
  /\ UNCHANGED <<zoneVars, dashVars>>
  /\ rerenderTable
  /\ UNCHANGED libVars

handleSort(field) ==
  /\ tableMounted
  /\ IF sortField = field
     THEN /\ sortOrder' = (IF sortOrder = "asc" THEN "desc" ELSE "asc")
          /\ UNCHANGED sortField
     ELSE /\ sortField' = field
          /\ sortOrder' = "asc"
  /\ UNCHANGED <<searchTerm, categoryFilter, typeFilter, currentPage>>
  /\ UNCHANGED <<summary, activeTab, crashed>>
  /\ UNCHANGED <<zoneVars, dashVars>>
  /\ rerenderTable
  /\ UNCHANGED libVars

\* the Previous button: rendered when totalPages > 1, disabled on page 1
clickPrevious ==
  /\ tableMounted
  /\ totalPages > 1
  /\ currentPage # 1
  /\ currentPage' = Max(1, currentPage - 1)
  /\ UNCHANGED <<searchTerm, categoryFilter, typeFilter, sortField, sortOrder,
                 filteredAndSorted>>
  /\ UNCHANGED <<homeVars, zoneVars, dashVars>>
  /\ UNCHANGED libVars

\* the Next button: rendered when totalPages > 1, disabled on the last page
clickNext ==
  /\ tableMounted
  /\ totalPages > 1
  /\ currentPage # totalPages
  /\ currentPage' = Min(totalPages, currentPage + 1)
  /\ UNCHANGED <<searchTerm, categoryFilter, typeFilter, sortField, sortOrder,
                 filteredAndSorted>>
  /\ UNCHANGED <<homeVars, zoneVars, dashVars>>
  /\ UNCHANGED libVars

\* the table is not rendered: its state is gone
unmountTable ==
  /\ searchTerm' = <<>> /\ categoryFilter' = <<>> /\ typeFilter' = ""
  /\ sortField' = "date" /\ sortOrder' = "desc"
  /\ currentPage' = 1
  /\ filteredAndSorted' = <<>>

NextTable ==
  \/ \E value \in SearchTerms : setSearchTerm(value)
  \/ \E value \in {<<>>} \cup categories(transactions) : setCategoryFilter(value)
  \/ \E value \in {""} \cup types(transactions) : setTypeFilter(value)
  \/ \E field \in SortFields : handleSort(field)
  \/ clickPrevious
  \/ clickNext

SpecTable == InitTable /\ [][NextTable]_vars

(***************************************************************************)
(* UploadZone                                                              *)
(***************************************************************************)
sDotCsv == <<".","c","s","v">>

\* accepted for its type only, and for its extension only
fileTypeOnly == [name |-> <<"d","a","t","a">>, type |-> "text/csv"]

fileUpperCsv == [name |-> <<"B",".","C","S","V">>, type |-> ""]

\* refused
fileTxt == [name |-> <<"c",".","t","x","t">>, type |-> "text/plain"]

fileCsvTxt == [name |-> <<"x",".","c","s","v",".","t","x","t">>, type |-> "application/vnd.ms-excel"]

FileInputs == {fileTypeOnly, fileUpperCsv, fileTxt, fileCsvTxt}

\* isCsvFile with the extension looked for anywhere in the name
isCsvFileAnywhere(f) == f.type = "text/csv" \/ includes(toLowerCase(f.name), sDotCsv)

\* the test both handleDrop and handleFileSelect apply to a file
isCsvFile(f) == f.type = "text/csv" \/ endsWith(toLowerCase(f.name), sDotCsv)

RECURSIVE findCsv(_)
\* files.find(isCsvFile): the first file that passes the test, else Undefined
findCsv(files) ==
  IF files = <<>> THEN Undefined
  ELSE IF isCsvFile(Head(files)) THEN Head(files)
  ELSE findCsv(Tail(files))

InvalidCsvMessage == "Please upload a valid CSV file"

zoneMounted == ~crashed /\ activeTab = "upload"

handleDragOver ==
  /\ zoneMounted
  /\ isDragOver' = TRUE
  /\ UNCHANGED <<file, isUploading, error, inflight, sent>>
  /\ UNCHANGED <<homeVars, tableVars, dashVars>>
  /\ UNCHANGED libVars

handleDragLeave ==
  /\ zoneMounted
  /\ isDragOver' = FALSE
  /\ UNCHANGED <<file, isUploading, error, inflight, sent>>
  /\ UNCHANGED <<homeVars, tableVars, dashVars>>
  /\ UNCHANGED libVars

handleDrop(files) ==
  /\ zoneMounted
  /\ isDragOver' = FALSE
  /\ LET csvFile == findCsv(files)
     IN  IF csvFile # Undefined
         THEN file' = csvFile /\ error' = NoError
         ELSE error' = InvalidCsvMessage /\ UNCHANGED file
  /\ UNCHANGED <<isUploading, inflight, sent>>
  /\ UNCHANGED <<homeVars, tableVars, dashVars>>
  /\ UNCHANGED libVars

\* selectedFile is e.target.files?.[0]; Undefined when the list is empty
handleFileSelect(selectedFile) ==
  /\ zoneMounted
  /\ IF selectedFile # Undefined
     THEN IF isCsvFile(selectedFile)
          THEN file' = selectedFile /\ error' = NoError
          ELSE error' = InvalidCsvMessage /\ UNCHANGED file
     ELSE UNCHANGED <<file, error>>
  /\ UNCHANGED <<isDragOver, isUploading, inflight, sent>>
  /\ UNCHANGED <<homeVars, tableVars, dashVars>>
  /\ UNCHANGED libVars

\* the X button, rendered while a file is selected
removeFile ==
  /\ zoneMounted
  /\ file # Null
  /\ file' = Null
  /\ error' = NoError
  /\ UNCHANGED <<isDragOver, isUploading, inflight, sent>>
  /\ UNCHANGED <<homeVars, tableVars, dashVars>>
  /\ UNCHANGED libVars

MaxUploads == 3

\* the Upload & Analyze button, rendered while a file is selected and
\* disabled while isUploading; handleUpload up to the await of fetch
handleUpload ==
  /\ zoneMounted
  /\ file # Null
  /\ ~isUploading
  /\ Len(sent) < MaxUploads
  /\ isUploading' = TRUE
  /\ error' = NoError
  /\ inflight' = inflight \cup {[id |-> Len(sent) + 1, file |-> file, live |-> TRUE]}
  /\ sent' = Append(sent, file)
  /\ UNCHANGED <<isDragOver, file>>
  /\ UNCHANGED <<homeVars, tableVars, dashVars>>
  /\ UNCHANGED libVars

(***************************************************************************)
(* What a fetch can settle with                                            *)
(***************************************************************************)
OtherSummary ==
  [totalSpent |-> 8550, totalIncome |-> 0, netAmount |-> -8550,
   transactionCount |-> 1, avgTransactionAmount |-> 8550]

\* bodies of a 2xx answer (UploadResponse: transactions and summary optional)
OkBodies ==
  {[success |-> TRUE, message |-> "ok", transactions |-> <<>>, summary |-> OtherSummary],
   [success |-> TRUE, message |-> "ok", transactions |-> <<Tx1>>, summary |-> OtherSummary],
   [success |-> TRUE, message |-> "ok", transactions |-> MockTransactions,
    summary |-> MockSummary],
   [success |-> TRUE, message |-> "ok", transactions |-> <<Tx1>>],
   [success |-> TRUE, message |-> "ok", summary |-> OtherSummary],
   [success |-> TRUE, message |-> "ok"],
   [success |-> FALSE, message |-> "No valid rows"],
   [success |-> FALSE, message |-> ""],
   [success |-> FALSE]}

\* bodies of a non-2xx answer
ErrorBodies ==
  {[detail |-> "Invalid file format"],
   [message |-> "Invalid file format"],
   [detail |-> "", message |-> "No valid rows"],
   [success |-> FALSE]}

ErrorStatuses == {400, 500}

Outcomes ==
  {[kind |-> "rejected", isError |-> TRUE, message |-> "Network error"],
   [kind |-> "rejected", isError |-> FALSE]}
  \cup {[kind |-> "response", ok |-> FALSE, status |-> 400, json |-> TRUE, body |-> b] :
          b \in ErrorBodies}
  \cup {[kind |-> "response", ok |-> FALSE, status |-> st, json |-> FALSE] :
          st \in ErrorStatuses}
  \cup {[kind |-> "response", ok |-> TRUE, status |-> 200, json |-> FALSE]}
  \cup {[kind |-> "response", ok |-> TRUE, status |-> 200, json |-> TRUE, body |-> b] :
          b \in OkBodies}

\* the message of the SyntaxError response.json() rejects with
JsonSyntaxErrorMessage == "Unexpected token < in JSON at position 0"

\* `Upload failed: ${response.status}`
uploadFailedStatus(status) ==
  IF status = 400 THEN "Upload failed: 400"
  ELSE IF status = 500 THEN "Upload failed: 500"
  ELSE "Upload failed: <status>"

\* body.name || otherwise, for a text field
textOr(body, name, otherwise) ==
  IF name \in DOMAIN body /\ body[name] # "" THEN body[name] ELSE otherwise

\* the errorMessage of a response that is not ok
notOkMessage(o) ==
  LET errorData == IF o.json THEN o.body ELSE [none |-> TRUE]
  IN  textOr(errorData, "detail",
        textOr(errorData, "message", uploadFailedStatus(o.status)))

\* what handleUpload does once its fetch has settled with o: whether it calls
\* onUploadSuccess, and the text it hands to setError (NoError: no call)
uploadResult(o) ==
  IF o.kind = "rejected"
  THEN [success |-> FALSE,
        error |-> IF o.isError THEN o.message ELSE "Upload failed"]
  ELSE IF ~o.ok
  THEN [success |-> FALSE, error |-> notOkMessage(o)]
  ELSE IF ~o.json
  THEN [success |-> FALSE, error |-> JsonSyntaxErrorMessage]
  ELSE IF "success" \in DOMAIN o.body /\ o.body.success
  THEN [success |-> TRUE, error |-> NoError]
  ELSE [success |-> FALSE, error |-> textOr(o.body, "message", "Upload failed")]

\* data.transactions and data.summary as handleUploadSuccess reads them
dataTransactions(data) ==
  IF "transactions" \in DOMAIN data THEN data.transactions ELSE UndefinedList

dataSummary(data) ==
  IF "summary" \in DOMAIN data THEN data.summary ELSE Undefined

\* the requests of an instance that unmounts lose their component
orphaned(requests) == {[r EXCEPT !.live = FALSE] : r \in requests}

unmountZone ==
  /\ isDragOver' = FALSE
  /\ file' = Null
  /\ isUploading' = FALSE
  /\ error' = NoError

\* handleUpload after the await, for request r whose fetch settles with o.
\* A success runs Home.handleUploadSuccess; the render that follows throws
\* when it reads transactions.length of an undefined list; otherwise the tab
\* is "transactions" and the UploadZone is unmounted.  The set-state calls of
\* handleUpload reach only the instance that issued r, if still mounted.
settle(r, o) ==
  /\ ~crashed
  /\ r \in inflight
  /\ LET result == uploadResult(o)
     IN  IF result.success
         THEN /\ transactions' = dataTransactions(o.body)
              /\ summary' = dataSummary(o.body)
              /\ activeTab' = "transactions"
              /\ crashed' = (dataTransactions(o.body) = UndefinedList)
              /\ unmountZone
              /\ inflight' = orphaned(inflight \ {r})
         ELSE /\ UNCHANGED homeVars
              /\ inflight' = inflight \ {r}
              /\ IF r.live
                 THEN /\ error' = result.error
                      /\ isUploading' = FALSE
                      /\ UNCHANGED <<isDragOver, file>>
                 ELSE UNCHANGED <<isDragOver, file, isUploading, error>>
  /\ UNCHANGED sent
  /\ UNCHANGED <<tableVars, dashVars>>
  /\ applied' = (IF uploadResult(o).success THEN r.id ELSE applied)
  /\ UNCHANGED <<apiCall, proxy, themeVars>>

(***************************************************************************)
(* Home                                                                    *)
(***************************************************************************)
Tabs == {"upload", "transactions", "analytics"}

\* the nav buttons: Transactions is disabled while the list is empty,
\* Analytics while there is no summary
setActiveTab(tab) ==
  /\ ~crashed
  /\ tab # activeTab
  /\ tab = "transactions" => Len(transactions) # 0
  /\ tab = "analytics" => truthy(summary)
  /\ activeTab' = tab
  /\ UNCHANGED <<transactions, summary, crashed>>
  /\ IF activeTab = "upload"
     THEN unmountZone /\ inflight' = orphaned(inflight)
     ELSE UNCHANGED <<isDragOver, file, isUploading, error, inflight>>
  /\ UNCHANGED sent
  /\ UNCHANGED <<tableVars, dashVars>>
  /\ UNCHANGED libVars

DropInputs ==
  {<<>>} \cup {<<f>> : f \in FileInputs}
         \cup {<<fileTxt, fileUpperCsv>>, <<fileTxt, fileCsvTxt>>,
               <<fileUpperCsv, fileTypeOnly>>}

Init ==
  /\ transactions = <<>> /\ summary = Null /\ activeTab = "upload"
  /\ crashed = FALSE
  /\ isDragOver = FALSE /\ file = Null /\ isUploading = FALSE /\ error = NoError
  /\ inflight = {} /\ sent = <<>>
  /\ searchTerm = <<>> /\ categoryFilter = <<>> /\ typeFilter = ""
  /\ sortField = "date" /\ sortOrder = "desc"
  /\ currentPage = 1
  /\ filteredAndSorted = <<>>
  /\ tzOffset = 0 /\ dashboard = FALSE
  /\ categoryData = <<>> /\ timelineData = <<>>
  /\ InitLib

Next ==
  \/ handleDragOver
  \/ handleDragLeave
  \/ \E files \in DropInputs : handleDrop(files)
  \/ \E f \in FileInputs \cup {Undefined} : handleFileSelect(f)
  \/ removeFile
  \/ handleUpload
  \/ \E r \in inflight, o \in Outcomes : settle(r, o)
  \/ \E tab \in Tabs : setActiveTab(tab)

Spec == Init /\ [][Next]_vars

\* every fetch resolves or rejects: a request in flight is settled
SpecLive ==
  Spec /\ \A id \in 1..MaxUploads :
            WF_vars(\E r \in inflight, o \in Outcomes : r.id = id /\ settle(r, o))

(***************************************************************************)
(* AnalyticsDashboard.  A percentage is the exact ratio num / den.         *)
(***************************************************************************)
ZeroPercent == [num |-> 0, den |-> 1]

\* transaction.category || "Uncategorized"
categoryOrUncategorized(t) ==
  IF categoryOrEmpty(t) # <<>> THEN t.category ELSE sUncategorized

isDebit(t) == t.type = "debit"

\* one call of the forEach callback: the entry of the category is made or
\* added to.  The Map is its list of entries in insertion order.
categoryMapSet(map, t) ==
  LET category == categoryOrUncategorized(t)
      at == {i \in 1..Len(map) : map[i].category = category}
  IN  IF at = {}
      THEN Append(map, [category |-> category,
                        amount |-> 0 + Abs(t.amount), count |-> 0 + 1])
      ELSE LET i == CHOOSE j \in at : TRUE
           IN  [map EXCEPT ![i] = [category |-> category,
                                   amount |-> map[i].amount + Abs(t.amount),
                                   count |-> map[i].count + 1]]

RECURSIVE categoryMapFrom(_, _)
\* the Map after forEach has gone through debits, first to last, starting
\* with map: the first half of the rows is done before the second is begun
categoryMapFrom(map, debits) ==
  IF debits = <<>> THEN map
  ELSE IF Len(debits) = 1 THEN categoryMapSet(map, debits[1])
  ELSE LET mid == Len(debits) \div 2
           first == categoryMapFrom(map, SubSeq(debits, 1, mid))
           rest == SubSeq(debits, mid + 1, Len(debits))
       IN  IF first = <<>> THEN categoryMapFrom(<<>>, rest)
           ELSE categoryMapFrom(first, rest)

\* the Map filled by forEach
categoryMapOf(debits) == categoryMapFrom(<<>>, debits)

RECURSIVE sortByAmountDesc(_)
\* the entries left in the insertion order of the Map
sortByAmountSkipped(rows) == rows

\* .sort((a, b) => b.amount - a.amount): stable, larger amounts first
sortByAmountDesc(rows) ==
  IF rows = <<>> THEN <<>>
  ELSE LET front == sortByAmountDesc(SubSeq(rows, 1, Len(rows) - 1))
           row == rows[Len(rows)]
           keep == Cardinality({i \in 1..Len(front) : ~(row.amount - front[i].amount > 0)})
       IN  SubSeq(front, 1, keep) \o <<row>> \o SubSeq(front, keep + 1, Len(front))

\* totalSpentOf without the absolute value
totalSpentSigned(sm) == sm.totalSpent

\* const totalSpent = Math.abs(summary.totalSpent)
totalSpentOf(sm) == Abs(sm.totalSpent)

\* percentageOf without the guard on a zero total
percentageOfUnguarded(amount, totalSpent) ==
  [num |-> amount * 100, den |-> totalSpent]

percentageOf(amount, totalSpent) ==
  IF totalSpent > 0 THEN [num |-> amount * 100, den |-> totalSpent] ELSE ZeroPercent

\* computeCategoryData over every row, credits too
computeCategoryDataAllTypes(txs, sm) ==
  LET categoryMap == categoryMapOf(txs)
      totalSpent == totalSpentOf(sm)
  IN  sortByAmountDesc(
        [i \in 1..Len(categoryMap) |->
           [category |-> categoryMap[i].category,
            amount |-> categoryMap[i].amount,
            count |-> categoryMap[i].count,
            percentage |-> percentageOf(categoryMap[i].amount, totalSpent)]])

\* the categoryData memo
computeCategoryData(txs, sm) ==
  LET categoryMap == categoryMapOf(SelectSeq(txs, isDebit))
      totalSpent == totalSpentOf(sm)
  IN  sortByAmountDesc(
        [i \in 1..Len(categoryMap) |->
           [category |-> categoryMap[i].category,
            amount |-> categoryMap[i].amount,
            count |-> categoryMap[i].count,
            percentage |-> percentageOf(categoryMap[i].amount, totalSpent)]])

\* `${date.getFullYear()}-${String(date.getMonth() + 1).padStart(2, '0')}` of
\* new Date(transaction.date): the year and month in local time
monthKey(date, offset) ==
  LET local == LocalDate(getTime(date), offset)
  IN  <<local.y, local.m>>

keyBefore(k1, k2) == k1[1] < k2[1] \/ (k1[1] = k2[1] /\ k1[2] < k2[2])

\* one call of the forEach callback; the Map is its list of <<key, amount>>
\* entries in insertion order
monthlyMapSet(map, t, offset) ==
  LET key == monthKey(t.date, offset)
      at == {i \in 1..Len(map) : map[i][1] = key}
  IN  IF at = {} THEN Append(map, <<key, 0 + t.amount>>)
      ELSE LET i == CHOOSE j \in at : TRUE
           IN  [map EXCEPT ![i] = <<key, map[i][2] + t.amount>>]

RECURSIVE monthlyMapFrom(_, _, _)
\* the Map after forEach has gone through txs, first to last, starting with
\* map: the first half of the rows is done before the second is begun
monthlyMapFrom(map, txs, offset) ==
  IF txs = <<>> THEN map
  ELSE IF Len(txs) = 1 THEN monthlyMapSet(map, txs[1], offset)
  ELSE LET mid == Len(txs) \div 2
           first == monthlyMapFrom(map, SubSeq(txs, 1, mid), offset)
           rest == SubSeq(txs, mid + 1, Len(txs))
       IN  IF first = <<>> THEN monthlyMapFrom(<<>>, rest, offset)
           ELSE monthlyMapFrom(first, rest, offset)

\* the Map filled by forEach
monthlyMapOf(txs, offset) == monthlyMapFrom(<<>>, txs, offset)

RECURSIVE sortEntries(_)
\* Array.from(monthlyMap.entries()).sort(): the keys are distinct strings
\* "YYYY-MM", so the entries come out in the order of their keys
sortEntries(entries) ==
  IF entries = <<>> THEN <<>>
  ELSE LET front == sortEntries(SubSeq(entries, 1, Len(entries) - 1))
           e == entries[Len(entries)]
           keep == Cardinality({i \in 1..Len(front) : keyBefore(front[i][1], e[1])})
       IN  SubSeq(front, 1, keep) \o <<e>> \o SubSeq(front, keep + 1, Len(front))

\* new Date(key + '-01').toLocaleDateString('en-US', {month, year}): the month
\* that midnight UTC of the first of the month falls in, in local time
monthLabel(key, offset) ==
  LET local == LocalDate(getTime(Date(key[1], key[2], 1)), offset)
  IN  [y |-> local.y, m |-> local.m]

RECURSIVE cumulativeTo(_, _)
\* cumulativeTo without the running total
cumulativeToLast(entries, k) == entries[k][2]

\* let cumulative = 0; cumulative += amount: the total after entry k
cumulativeTo(entries, k) ==
  IF k = 0 THEN 0 ELSE cumulativeTo(entries, k - 1) + entries[k][2]

\* the timelineData memo
computeTimelineData(txs, offset) ==
  LET sortedEntries == sortEntries(monthlyMapOf(txs, offset))
  IN  [k \in 1..Len(sortedEntries) |->
         [date |-> monthLabel(sortedEntries[k][1], offset),
          amount |-> sortedEntries[k][2],
          cumulative |-> cumulativeTo(sortedEntries, k)]]

\* the list once both memos have run: filter, Array.from and map return new
\* arrays, forEach only reads the transactions, and the memos write to their
\* own Maps
aggregationArrays(txs, sm, offset) ==
  [transactions |-> txs,
   categoryData |-> computeCategoryData(txs, sm),
   timelineData |-> computeTimelineData(txs, offset)]

\* the chart rendered whatever the number of points
timelineChartAlways == dashboard

\* the Spending Timeline chart is rendered
timelineChartShown == dashboard /\ Len(timelineData) > 1

MaxLen == 3

DashPool == {Tx1, Tx2, Tx4, Tx5, Tx6, Tx7, Tx8}

RECURSIVE ListsUpTo(_)
ListsUpTo(n) ==
  IF n = 0 THEN {<<>>}
  ELSE LET shorter == ListsUpTo(n - 1)
       IN  shorter \cup {Append(l, t) : l \in {x \in shorter : Len(x) = n - 1},
                                        t \in DashPool}

DashInputs ==
  ListsUpTo(MaxLen) \cup {MockTransactions, <<Tx5, Tx1, Tx6, Tx7, Tx8, Tx3>>}

\* summaries that agree with no list, with MockTransactions, and neither
DashSummaries ==
  {[MockSummary EXCEPT !.totalSpent = v] : v \in {0, 13650, -13650, 8550, 1000000}}

\* New York, UTC, Tokyo
TimeZones == {-300, 0, 540}

InitDash ==
  /\ transactions \in DashInputs
  /\ summary \in DashSummaries
  /\ activeTab = "upload" /\ crashed = FALSE
  /\ isDragOver = FALSE /\ file = Null /\ isUploading = FALSE /\ error = NoError
  /\ inflight = {} /\ sent = <<>>
  /\ searchTerm = <<>> /\ categoryFilter = <<>> /\ typeFilter = ""
  /\ sortField = "date" /\ sortOrder = "desc"
  /\ currentPage = 1
  /\ filteredAndSorted = <<>>
  /\ tzOffset \in TimeZones
  /\ dashboard = FALSE
  /\ categoryData = <<>> /\ timelineData = <<>>
  /\ InitLib

\* the Analytics tab is chosen: Home renders the dashboard, which computes
\* both memos from its props
mountDashboard ==
  /\ ~dashboard
  /\ truthy(summary)
  /\ activeTab' = "analytics"
  /\ dashboard' = TRUE
  /\ LET arrays == aggregationArrays(transactions, summary, tzOffset)
     IN  /\ transactions' = arrays.transactions
         /\ categoryData' = arrays.categoryData
         /\ timelineData' = arrays.timelineData
  /\ unmountTable
  /\ UNCHANGED <<summary, crashed, tzOffset>>
  /\ UNCHANGED zoneVars
  /\ UNCHANGED libVars

\* another tab is chosen: the dashboard and its memos are gone
unmountDashboard ==
  /\ dashboard
  /\ activeTab' = "upload"
  /\ dashboard' = FALSE
  /\ categoryData' = <<>>
  /\ timelineData' = <<>>
  /\ UNCHANGED <<transactions, summary, crashed, tzOffset>>
  /\ UNCHANGED <<zoneVars, tableVars>>
  /\ UNCHANGED libVars

NextDash == mountDashboard \/ unmountDashboard

SpecDash == InitDash /\ [][NextDash]_vars

(***************************************************************************)
(* Home with a list and a summary: the three views of one list             *)
(***************************************************************************)
\* the Transactions nav button: Home renders a new table, whose first render
\* runs the memo; the dashboard, if rendered, is gone
mountTable ==
  /\ ~crashed
  /\ activeTab # "transactions"
  /\ Len(transactions) # 0
  /\ activeTab' = "transactions"
  /\ searchTerm' = <<>> /\ categoryFilter' = <<>> /\ typeFilter' = ""
  /\ sortField' = "date" /\ sortOrder' = "desc"
  /\ currentPage' = 1
  /\ rerenderTable
  /\ dashboard' = FALSE /\ categoryData' = <<>> /\ timelineData' = <<>>
  /\ UNCHANGED <<summary, crashed, tzOffset>>
  /\ UNCHANGED zoneVars
  /\ UNCHANGED libVars

\* the Upload nav button while the table is rendered
closeTable ==
  /\ tableMounted
  /\ activeTab' = "upload"
  /\ unmountTable
  /\ UNCHANGED <<transactions, summary, crashed>>
  /\ UNCHANGED <<zoneVars, dashVars>>
  /\ UNCHANGED libVars

ViewInputs ==
  {MockTransactions, SignedTransactions, ManyTransactions(MaxRows)}

InitViews ==
  /\ transactions \in ViewInputs
  /\ summary = MockSummary
  /\ activeTab = "upload" /\ crashed = FALSE
  /\ isDragOver = FALSE /\ file = Null /\ isUploading = FALSE /\ error = NoError
  /\ inflight = {} /\ sent = <<>>
  /\ searchTerm = <<>> /\ categoryFilter = <<>> /\ typeFilter = ""
  /\ sortField = "date" /\ sortOrder = "desc"
  /\ currentPage = 1
  /\ filteredAndSorted = <<>>
  /\ tzOffset = -300
  /\ dashboard = FALSE
  /\ categoryData = <<>> /\ timelineData = <<>>
  /\ InitLib

NextViews ==
  \/ mountTable
  \/ closeTable
  \/ NextTable
  \/ NextDash

SpecViews == InitViews /\ [][NextViews]_vars

(***************************************************************************)
(* The API client (lib/api.ts)                                             *)
(***************************************************************************)
ApiCalls ==
  {"uploadTransactions", "getTransactions", "getAnalyticsSummary",
   "getCategoryAnalytics", "getTimelineAnalytics"}

ApiError(status, message) ==
  [name |-> "ApiError", status |-> status, message |-> message]

\* `HTTP ${response.status}`
httpStatus(status) ==
  IF status = 400 THEN "HTTP 400"
  ELSE IF status = 404 THEN "HTTP 404"
  ELSE IF status = 500 THEN "HTTP 500"
  ELSE "HTTP <status>"

\* response.ok
responseOk(status) == status \in 200..299

\* a body that response.json() rejects
NotJson == [notJson |-> TRUE]

\* the errors response.json() and errorData.message throw
JsonSyntaxError == [name |-> "SyntaxError", message |-> JsonSyntaxErrorMessage]

\* the try block throws: the body is no JSON, or it is null and reading its
\* message fails
errorDataThrows(response) == response.body = NotJson \/ response.body = Null

\* errorMessageOf with detail read before message
errorMessageDetailFirst(response) ==
  LET errorMessage == httpStatus(response.status)
  IN  IF errorDataThrows(response)
      THEN textOr(response, "statusText", errorMessage)
      ELSE textOr(response.body, "detail",
             textOr(response.body, "message", errorMessage))

\* the errorMessage of handleResponse for a response that is not ok
errorMessageOf(response) ==
  LET errorMessage == httpStatus(response.status)
  IN  IF errorDataThrows(response)
      THEN textOr(response, "statusText", errorMessage)
      ELSE textOr(response.body, "message",
             textOr(response.body, "detail", errorMessage))

\* contentType && contentType.includes("application/json")
JsonContentTypes == {"application/json", "application/json; charset=utf-8"}

\* how the promise of handleResponse settles
handleResponse(response) ==
  IF ~responseOk(response.status)
  THEN [kind |-> "rejected",
        error |-> ApiError(response.status, errorMessageOf(response))]
  ELSE IF response.contentType \in JsonContentTypes
  THEN IF response.body = NotJson
       THEN [kind |-> "rejected", error |-> JsonSyntaxError]
       ELSE [kind |-> "resolved", value |-> [json |-> response.body]]
  ELSE [kind |-> "resolved", value |-> [text |-> response.body]]

\* callResult with a transport error put into an ApiError
callResultWrapped(o) ==
  IF o.kind = "rejected"
  THEN [kind |-> "rejected", error |-> ApiError(0, o.error.message), handled |-> FALSE]
  ELSE [handled |-> TRUE] @@ handleResponse(o.response)

\* how the promise of an api call settles when its fetch settles with o, and
\* whether handleResponse ran: `await fetch(...)` throws what fetch rejects with
callResult(o) ==
  IF o.kind = "rejected"
  THEN [kind |-> "rejected", error |-> o.error, handled |-> FALSE]
  ELSE [handled |-> TRUE] @@ handleResponse(o.response)

TransportErrors ==
  {[name |-> "TypeError", message |-> "Failed to fetch"],
   [name |-> "Error", message |-> "Network error"]}

ApiErrorBodies ==
  {[message |-> "Invalid file format"],
   [detail |-> "Resource not found"],
   [message |-> "Invalid file format", detail |-> "Resource not found"],
   [message |-> "", detail |-> "Resource not found"],
   [success |-> FALSE],
   Null, NotJson}

statusTextOf(status) ==
  IF status = 400 THEN "Bad Request"
  ELSE IF status = 404 THEN "Not Found"
  ELSE IF status = 500 THEN "Internal Server Error"
  ELSE "OK"

\* HTTP/2 answers have an empty status text
ApiResponses ==
  {[status |-> st, statusText |-> tx, contentType |-> "application/json", body |-> b] :
     st \in {400, 404, 500}, tx \in {"", "Bad Request", "Internal Server Error"},
     b \in ApiErrorBodies}
  \cup {[status |-> st, statusText |-> "", contentType |-> ct, body |-> b] :
          st \in {200, 204}, ct \in JsonContentTypes \cup {"text/plain", ""},
          b \in {[success |-> TRUE, message |-> "ok"], NotJson}}

ApiOutcomes ==
  {[kind |-> "rejected", error |-> e] : e \in TransportErrors}
  \cup {[kind |-> "response", response |-> r] : r \in ApiResponses}

\* one of the five functions of api is called and awaits its fetch
apiFetch(name) ==
  /\ apiCall = Idle
  /\ apiCall' = [phase |-> "fetching", name |-> name]
  /\ UNCHANGED <<homeVars, zoneVars, tableVars, dashVars, proxy, themeVars, applied>>

\* the fetch settles with o and the call settles in turn
apiSettle(o) ==
  /\ apiCall.phase = "fetching"
  /\ apiCall' = [phase |-> "settled", name |-> apiCall.name, outcome |-> o,
                 result |-> callResult(o)]
  /\ UNCHANGED <<homeVars, zoneVars, tableVars, dashVars, proxy, themeVars, applied>>

\* the caller has taken the result
apiReturn ==
  /\ apiCall.phase = "settled"
  /\ apiCall' = Idle
  /\ UNCHANGED <<homeVars, zoneVars, tableVars, dashVars, proxy, themeVars, applied>>

NextApi ==
  \/ \E name \in ApiCalls : apiFetch(name)
  \/ \E o \in ApiOutcomes : apiSettle(o)
  \/ apiReturn

SpecApi == Init /\ [][NextApi]_vars

(***************************************************************************)
(* The upload proxy route (app/api/transactions/upload/route.ts)           *)
(***************************************************************************)
\* what the catch block answers
InternalServerError ==
  [status |-> 500, body |-> [success |-> FALSE, message |-> "Internal server error"]]

\* a request whose body request.formData() rejects
NotMultipart == [notMultipart |-> TRUE]

ProxyRequests == {[formData |-> f] : f \in FileInputs} \cup {NotMultipart}

BackendBodies ==
  {[success |-> TRUE, message |-> "ok", transactions |-> <<Tx1>>, summary |-> OtherSummary],
   [success |-> FALSE, message |-> "No valid rows"],
   Null, NotJson}

BackendResponses ==
  {[status |-> st, body |-> b] : st \in {200, 201}, b \in BackendBodies}
  \cup {[status |-> st, body |-> b] :
          st \in {400, 422, 500, 502}, b \in ErrorBodies \cup {Null, NotJson}}

BackendOutcomes ==
  {[kind |-> "rejected", error |-> e] : e \in TransportErrors}
  \cup {[kind |-> "response", response |-> r] : r \in BackendResponses}

\* proxyReply with the status and the body of every JSON answer handed on
proxyReplyRelayed(o) ==
  IF o.kind = "rejected" THEN InternalServerError
  ELSE IF o.response.body = NotJson THEN InternalServerError
  ELSE [status |-> o.response.status, body |-> o.response.body]

\* POST after the await of fetch, which has settled with o: the answer to the
\* client.  response.json() throws for a body that is no JSON, and
\* data.detail throws for the body null.
proxyReply(o) ==
  IF o.kind = "rejected" THEN InternalServerError
  ELSE LET response == o.response
           data == response.body
       IN  IF data = NotJson THEN InternalServerError
           ELSE IF ~responseOk(response.status)
           THEN IF data = Null THEN InternalServerError
                ELSE [status |-> response.status,
                      body |-> [success |-> FALSE,
                                message |-> textOr(data, "detail",
                                              textOr(data, "message", "Upload failed"))]]
           ELSE [status |-> 200, body |-> data]

\* POST up to the await of fetch: the form data of the request is read and
\* sent on; a request without form data is answered by the catch block
POST(request) ==
  /\ proxy = Idle
  /\ proxy' = IF request = NotMultipart
              THEN [phase |-> "replied", request |-> request,
                    reply |-> InternalServerError]
              ELSE [phase |-> "forwarding", request |-> request,
                    forwarded |-> request.formData]
  /\ UNCHANGED <<homeVars, zoneVars, tableVars, dashVars, apiCall, themeVars, applied>>

\* the fetch to the backend settles with o
proxySettle(o) ==
  /\ proxy.phase = "forwarding"
  /\ proxy' = [phase |-> "replied", request |-> proxy.request,
               forwarded |-> proxy.forwarded, outcome |-> o,
               reply |-> proxyReply(o)]
  /\ UNCHANGED <<homeVars, zoneVars, tableVars, dashVars, apiCall, themeVars, applied>>

\* the answer has gone to the client
proxyDone ==
  /\ proxy.phase = "replied"
  /\ proxy' = Idle
  /\ UNCHANGED <<homeVars, zoneVars, tableVars, dashVars, apiCall, themeVars, applied>>

NextProxy ==
  \/ \E request \in ProxyRequests : POST(request)
  \/ \E o \in BackendOutcomes : proxySettle(o)
  \/ proxyDone

SpecProxy == Init /\ [][NextProxy]_vars

(***************************************************************************)
(* useTheme (hooks/use-theme.ts)                                           *)
(***************************************************************************)
Themes == {"light", "dark"}

\* what localStorage may hold under "theme" when the hook mounts
StoredThemes ==
  {NoItem, "", "light", "dark", "system", "auto", "blue", "Dark", "LIGHT"}

\* the first effect calls setTheme with no value
NoUpdate == "<no update>"

\* initEffect with the system preference read before the stored value
initEffectSystemFirst(stored, prefers) ==
  IF prefers THEN "dark"
  ELSE IF stored # NoItem /\ stored # "" THEN stored
  ELSE NoUpdate

\* the first effect: the value it calls setTheme with.  `if (stored)` is
\* false for null and for the empty string.
initEffect(stored, prefers) ==
  IF stored # NoItem /\ stored # "" THEN stored
  ELSE IF prefers THEN "dark"
  ELSE NoUpdate

\* syncEffect that never removes the class
syncEffectAddOnly(theme, root) ==
  [rootDark |-> (theme = "dark" \/ root), stored |-> theme]

\* the second effect, run for a render with this theme: the class of the
\* document root and the item of localStorage after it
syncEffect(theme, root) ==
  [rootDark |-> (IF theme = "dark" THEN TRUE ELSE FALSE), stored |-> theme]

\* prev => prev === "light" ? "dark" : "light"
toggled(prev) == IF prev = "light" THEN "dark" ELSE "light"

\* a component that uses the hook mounts: the first render, with the effects
\* of that render still to run
mountTheme ==
  /\ themeHook = Unmounted
  /\ themeHook' = [mounted |-> TRUE, theme |-> "light", pending |-> "mount"]
  /\ UNCHANGED <<storedTheme, rootDark, prefersDark>>
  /\ UNCHANGED <<homeVars, zoneVars, tableVars, dashVars, apiCall, proxy, applied>>

\* the effects of the last render run.  After the first render these are both
\* effects, in order, for the theme "light" of that render, and then the
\* render with the theme the first effect has set; after a later render it is
\* the second effect alone.
runThemeEffects ==
  /\ themeHook.mounted
  /\ themeHook.pending # "none"
  /\ IF themeHook.pending = "mount"
     THEN LET update == initEffect(storedTheme, prefersDark)
              sync == syncEffect("light", rootDark)
              next == IF update = NoUpdate THEN "light" ELSE update
          IN  /\ rootDark' = sync.rootDark
              /\ storedTheme' = sync.stored
              /\ themeHook' = [mounted |-> TRUE, theme |-> next,
                               pending |-> IF next # "light" THEN "sync" ELSE "none"]
     ELSE LET sync == syncEffect(themeHook.theme, rootDark)
          IN  /\ rootDark' = sync.rootDark
              /\ storedTheme' = sync.stored
              /\ themeHook' = [themeHook EXCEPT !.pending = "none"]
  /\ UNCHANGED prefersDark
  /\ UNCHANGED <<homeVars, zoneVars, tableVars, dashVars, apiCall, proxy, applied>>

\* an event handler calls toggleTheme; the effects of the render before it
\* have run by then
toggleTheme ==
  /\ themeHook.mounted
  /\ themeHook.pending = "none"
  /\ themeHook' = [mounted |-> TRUE, theme |-> toggled(themeHook.theme),
                   pending |-> "sync"]
  /\ UNCHANGED <<storedTheme, rootDark, prefersDark>>
  /\ UNCHANGED <<homeVars, zoneVars, tableVars, dashVars, apiCall, proxy, applied>>

\* an event handler calls setTheme; a value equal to the state renders nothing
setTheme(value) ==
  /\ themeHook.mounted
  /\ themeHook.pending = "none"
  /\ themeHook' = [mounted |-> TRUE, theme |-> value,
                   pending |-> IF value # themeHook.theme THEN "sync" ELSE "none"]
  /\ UNCHANGED <<storedTheme, rootDark, prefersDark>>
  /\ UNCHANGED <<homeVars, zoneVars, tableVars, dashVars, apiCall, proxy, applied>>

\* the component unmounts; the item and the class stay
unmountTheme ==
  /\ themeHook.mounted
  /\ themeHook.pending = "none"
  /\ themeHook' = Unmounted
  /\ UNCHANGED <<storedTheme, rootDark, prefersDark>>
  /\ UNCHANGED <<homeVars, zoneVars, tableVars, dashVars, apiCall, proxy, applied>>

\* the system setting changes
changePreference ==
  /\ prefersDark' = ~prefersDark
  /\ UNCHANGED <<themeHook, storedTheme, rootDark>>
  /\ UNCHANGED <<homeVars, zoneVars, tableVars, dashVars, apiCall, proxy, applied>>

InitTheme ==
  /\ transactions = <<>> /\ summary = Null /\ activeTab = "upload"
  /\ crashed = FALSE
  /\ isDragOver = FALSE /\ file = Null /\ isUploading = FALSE /\ error = NoError
  /\ inflight = {} /\ sent = <<>>
  /\ searchTerm = <<>> /\ categoryFilter = <<>> /\ typeFilter = ""
  /\ sortField = "date" /\ sortOrder = "desc"
  /\ currentPage = 1
  /\ filteredAndSorted = <<>>
  /\ tzOffset = 0 /\ dashboard = FALSE
  /\ categoryData = <<>> /\ timelineData = <<>>
  /\ apiCall = Idle /\ proxy = Idle /\ applied = 0
  /\ themeHook = Unmounted
  /\ storedTheme \in StoredThemes
  /\ rootDark \in BOOLEAN
  /\ prefersDark \in BOOLEAN

NextTheme ==
  \/ mountTheme
  \/ runThemeEffects
  \/ toggleTheme
  \/ \E value \in Themes : setTheme(value)
  \/ unmountTheme
  \/ changePreference

SpecTheme == InitTheme /\ [][NextTheme]_vars

(***************************************************************************)
(* Properties                                                              *)
(***************************************************************************)
RECURSIVE SumOf(_)
SumOf(numbers) ==
  IF numbers = <<>> THEN 0 ELSE Head(numbers) + SumOf(Tail(numbers))

shownRows == {filteredAndSorted[i] : i \in 1..Len(filteredAndSorted)}

sameIgnoringCase(a, b) ==
  /\ Len(a) = Len(b)
  /\ \A i \in 1..Len(a) : toLowerCaseChar[a[i]] = toLowerCaseChar[b[i]]

containsIgnoringCase(text, term) ==
  \E i \in 1..(Len(text) + 1) : \E j \in (i - 1)..Len(text) :
    sameIgnoringCase(SubSeq(text, i, j), term)

C1_passes(t) ==
  /\ \/ searchTerm = <<>>
     \/ containsIgnoringCase(t.description, searchTerm)
     \/ (hasCategory(t) /\ containsIgnoringCase(t.category, searchTerm))
  /\ \/ categoryFilter = <<>>
     \/ (hasCategory(t) /\ t.category = categoryFilter)
  /\ \/ typeFilter = ""
     \/ t.type = typeFilter

\* C1: a transaction is in the filtered set iff the search term is empty or
\* contained, ignoring case, in its description or its category, and the
\* category filter is empty or equals its category, and the type filter is
\* empty or equals its type; without a category only the description can
\* match the search.
C1_FilterIsConjunctive ==
  \A k \in 1..Len(transactions) :
    (transactions[k] \in shownRows) <=> C1_passes(transactions[k])

\* a search that one shown row matches through its category only, a row
\* without category that is filtered out, and all three controls set
C1_Witness ==
  /\ searchTerm # <<>> /\ categoryFilter # <<>> /\ typeFilter # ""
  /\ \E t \in shownRows :
       ~containsIgnoringCase(t.description, searchTerm)
  /\ \E k \in 1..Len(transactions) :
       ~hasCategory(transactions[k]) /\ transactions[k] \notin shownRows

\* C2: the current page stays within 1..max(1, totalPages), so the visible
\* slice is non-empty whenever the filtered set is non-empty.
C2_PageWithinRange ==
  /\ currentPage \in 1..Max(1, totalPages)
  /\ Len(filteredAndSorted) > 0 => Len(paginatedTransactions) > 0

C3_pageSizes == [p \in 1..totalPages |-> Len(paginate(filteredAndSorted, p))]

\* C3: totalPages = ceil(N / 50); pages 1..totalPages hold the rows of the
\* filtered and sorted list in order; their sizes sum to N; every page but
\* the last has exactly 50 rows; no row is on two pages.
C3_PagesPartition ==
  LET N == Len(filteredAndSorted)
      page(p) == paginate(filteredAndSorted, p)
  IN  /\ totalPages * 50 >= N /\ (totalPages - 1) * 50 < N
      /\ \A p \in 1..totalPages : \A k \in 1..Len(page(p)) :
           page(p)[k] = filteredAndSorted[(p - 1) * 50 + k]
      /\ SumOf(C3_pageSizes) = N
      /\ \A p \in 1..(totalPages - 1) : Len(page(p)) = 50
      /\ totalPages > 0 => Len(page(totalPages)) \in 1..50
      /\ \A p, q \in 1..totalPages :
           p # q => {page(p)[k].id : k \in 1..Len(page(p))}
                      \cap {page(q)[k].id : k \in 1..Len(page(q))} = {}

\* the last of at least three pages is shown and is short
C3_Witness ==
  /\ totalPages >= 3
  /\ currentPage = totalPages
  /\ Len(paginatedTransactions) \in 1..49

C4_reportedSuccess(o) ==
  /\ o.kind = "response" /\ o.ok /\ o.json
  /\ "success" \in DOMAIN o.body /\ o.body.success

\* C4: after an upload attempt either the list and the summary of Home are
\* both the ones of the response, or both keep their values and the
\* UploadZone shows an error; after a reported success neither is without a
\* value.
C4_UploadAllOrNothing ==
  [][\A r \in inflight, o \in Outcomes :
       settle(r, o) =>
         \/ /\ C4_reportedSuccess(o)
            /\ {"transactions", "summary"} \subseteq DOMAIN o.body
            /\ transactions' = o.body.transactions
            /\ summary' = o.body.summary
         \/ /\ ~C4_reportedSuccess(o)
            /\ UNCHANGED <<transactions, summary>>
            /\ error' \notin {NoError, ""}]_vars

\* C5: at most one upload request is outstanding at any time.
C5_OneUploadInFlight == Cardinality(inflight) <= 1

C6_isCsv(f) ==
  \/ f.type = "text/csv"
  \/ /\ Len(f.name) >= 4
     /\ sameIgnoringCase(SubSeq(f.name, Len(f.name) - 3, Len(f.name)), sDotCsv)

C6_rejected == sent' = sent /\ error' = InvalidCsvMessage

C6_everySentIsCsv == \A i \in 1..Len(sent) : C6_isCsv(sent[i])

\* C6 as stated: selecting or dropping a file that is neither of type
\* text/csv nor named *.csv issues no request and sets the error "Please
\* upload a valid CSV file"; every request carries a file that is.
C6_NonCsvNeverSentOriginal ==
  /\ [][/\ \A f \in FileInputs :
             (~C6_isCsv(f) /\ handleFileSelect(f)) => C6_rejected
        /\ \A files \in DropInputs :
             ((\E i \in 1..Len(files) : ~C6_isCsv(files[i])) /\ handleDrop(files))
               => C6_rejected]_vars
  /\ []C6_everySentIsCsv

\* C6, amended: selecting such a file, or dropping files none of which is of
\* type text/csv or named *.csv, issues no request and sets the error; every
\* request carries a file that passed the test.
C6_NonCsvNeverSent ==
  /\ [][/\ \A f \in FileInputs :
             (~C6_isCsv(f) /\ handleFileSelect(f)) => C6_rejected
        /\ \A files \in DropInputs :
             ((\A i \in 1..Len(files) : ~C6_isCsv(files[i])) /\ handleDrop(files))
               => C6_rejected]_vars
  /\ []C6_everySentIsCsv

\* a file that fails the test was refused while an accepted file, sent
\* before, is still selected
C6_Witness ==
  /\ error = InvalidCsvMessage
  /\ file # Null
  /\ sent # <<>>

\* the category a row is counted under: its own, or "Uncategorized" when it
\* has none (the field is missing or empty)
C7_groupOf(t) ==
  IF hasCategory(t) /\ t.category # <<>> THEN t.category ELSE sUncategorized

C7_debitsOf(category) ==
  SelectSeq(transactions,
            LAMBDA t : t.type = "debit" /\ C7_groupOf(t) = category)

C7_absAmounts(rows) == [k \in 1..Len(rows) |-> Abs(rows[k].amount)]

C7_debitGroups ==
  {C7_groupOf(transactions[k]) :
     k \in {i \in 1..Len(transactions) : transactions[i].type = "debit"}}

\* C7: category aggregation considers debit rows only, groups them by
\* category with a missing category under "Uncategorized", and reports per
\* group the sum of |amount| and the number of rows; credits are in no group.
\* The four rows of the scenario give Food 91.25/2 and Transportation 45.25/1.
C7_CategoryAggregation ==
  dashboard =>
    /\ {categoryData[i].category : i \in 1..Len(categoryData)} = C7_debitGroups
    /\ Len(categoryData) = Cardinality(C7_debitGroups)
    /\ \A i \in 1..Len(categoryData) :
         LET rows == C7_debitsOf(categoryData[i].category)
         IN  /\ categoryData[i].amount = SumOf(C7_absAmounts(rows))
             /\ categoryData[i].count = Len(rows)
    /\ transactions = MockTransactions =>
         /\ Len(categoryData) = 2
         /\ categoryData[1].category = sFood
         /\ categoryData[1].amount = 9125 /\ categoryData[1].count = 2
         /\ categoryData[2].category = sTransportation
         /\ categoryData[2].amount = 4525 /\ categoryData[2].count = 1

\* a list with a credit row, rows without category and a group of several
C7_Witness ==
  /\ dashboard
  /\ \E k \in 1..Len(transactions) : transactions[k].type = "credit"
  /\ \E k \in 1..Len(transactions) :
       ~hasCategory(transactions[k]) /\ transactions[k].type = "debit"
  /\ \E i \in 1..Len(categoryData) :
       categoryData[i].category = sUncategorized /\ categoryData[i].count >= 2
  /\ Len(categoryData) >= 2

\* the percentages of rows add up to at most 100: they share a denominator
C8_sumAtMost100(rows) ==
  \/ rows = <<>>
  \/ LET den == rows[1].percentage.den
     IN  /\ den > 0
         /\ \A i \in 1..Len(rows) : rows[i].percentage.den = den
         /\ SumOf([i \in 1..Len(rows) |-> rows[i].percentage.num]) <= 100 * den

C8_allZero(rows) ==
  \A i \in 1..Len(rows) :
    rows[i].percentage.num = 0 /\ rows[i].percentage.den # 0

C8_debitTotal ==
  SumOf(C7_absAmounts(SelectSeq(transactions, LAMBDA t : t.type = "debit")))

\* C8 as stated: the percentages sum to at most 100 whenever totalSpent > 0,
\* and all are 0 when totalSpent = 0, for every list and every summary.
C8_PercentagesOriginal ==
  dashboard =>
    /\ summary.totalSpent > 0 => C8_sumAtMost100(categoryData)
    /\ summary.totalSpent = 0 => C8_allZero(categoryData)

\* C8, amended: the percentages sum to at most 100 whenever totalSpent > 0
\* and totalSpent is at least the sum of |amount| over the debit rows, and all
\* are 0 when totalSpent = 0.
C8_Percentages ==
  dashboard =>
    /\ (summary.totalSpent > 0 /\ summary.totalSpent >= C8_debitTotal)
         => C8_sumAtMost100(categoryData)
    /\ summary.totalSpent = 0 => C8_allZero(categoryData)

\* several categories whose amounts add up to exactly totalSpent
C8_Witness ==
  /\ dashboard
  /\ summary.totalSpent > 0
  /\ summary.totalSpent = C8_debitTotal
  /\ Len(categoryData) >= 2

\* C9: each percentage is groupAmount / |totalSpent| * 100, so a negative
\* totalSpent gives the percentages of its positive counterpart; it is 0,
\* with no division, when totalSpent is 0.
C9_PercentageFormula ==
  dashboard =>
    /\ \A i \in 1..Len(categoryData) :
         categoryData[i].percentage =
           IF summary.totalSpent = 0 THEN ZeroPercent
           ELSE [num |-> categoryData[i].amount * 100,
                 den |-> Abs(summary.totalSpent)]
    /\ categoryData =
         computeCategoryData(transactions,
                             [summary EXCEPT !.totalSpent = -summary.totalSpent])

\* a negative totalSpent and a non-empty result
C9_Witness ==
  /\ dashboard
  /\ summary.totalSpent < 0
  /\ categoryData # <<>>
  /\ categoryData[1].percentage.num > 0

C10_months == {<<transactions[k].date.y, transactions[k].date.m>> :
                 k \in 1..Len(transactions)}

C10_earlier(m1, m2) == m1[1] < m2[1] \/ (m1[1] = m2[1] /\ m1[2] < m2[2])

\* the k-th month, in ascending order, that has a transaction
C10_month(k) ==
  CHOOSE m \in C10_months :
    Cardinality({n \in C10_months : C10_earlier(n, m)}) = k - 1

C10_amountsIn(m) ==
  LET rows == SelectSeq(transactions, LAMBDA t : <<t.date.y, t.date.m>> = m)
  IN  [k \in 1..Len(rows) |-> rows[k].amount]

\* C10: the timeline has exactly one entry per calendar year-month in which
\* some transaction (debit or credit) is dated, in ascending order of month,
\* and the amount of an entry is the signed sum of the amounts of that month.
C10_TimelineBuckets ==
  dashboard =>
    /\ Len(timelineData) = Cardinality(C10_months)
    /\ \A k \in 1..Len(timelineData) :
         timelineData[k].amount = SumOf(C10_amountsIn(C10_month(k)))

C11_nonDecreasing ==
  \A k \in 2..Len(timelineData) :
    timelineData[k - 1].cumulative <= timelineData[k].cumulative

C11_prefixSums ==
  \A k \in 1..Len(timelineData) :
    timelineData[k].cumulative =
      (IF k = 1 THEN 0 ELSE timelineData[k - 1].cumulative) + timelineData[k].amount

C11_lastIsTotal ==
  Len(timelineData) > 0 =>
    timelineData[Len(timelineData)].cumulative =
      SumOf([i \in 1..Len(transactions) |-> transactions[i].amount])

\* C11 as stated: every cumulative value is the sum of the monthly amounts up
\* to it, the last one is the signed sum of all transaction amounts, and the
\* series is non-decreasing only when every monthly amount is non-negative.
C11_CumulativeOriginal ==
  dashboard =>
    /\ C11_prefixSums
    /\ C11_lastIsTotal
    /\ C11_nonDecreasing =>
         \A k \in 1..Len(timelineData) : timelineData[k].amount >= 0

\* C11: every cumulative value is the sum of the monthly amounts up to it
\* (the first one is the first amount), the last one is the signed sum of all
\* transaction amounts, and the series is non-decreasing exactly when every
\* monthly amount after the first is non-negative.
C11_Cumulative ==
  dashboard =>
    /\ C11_prefixSums
    /\ C11_lastIsTotal
    /\ C11_nonDecreasing <=>
         \A k \in 2..Len(timelineData) : timelineData[k].amount >= 0

\* three months, the first one negative, and a series that still never falls
C11_Witness ==
  /\ dashboard
  /\ Len(timelineData) = 3
  /\ timelineData[1].amount < 0
  /\ timelineData[2].amount > 0
  /\ C11_nonDecreasing
  /\ timelineData[3].cumulative # timelineData[3].amount

\* the place of a shown row in the list the table was given
positionOf(t) == CHOOSE i \in 1..Len(transactions) : transactions[i] = t

C12_ordered(x, y) == IF sortOrder = "asc" THEN x <= y ELSE x >= y

\* C12: when the sort field is amount, the rows are in the order of |amount|
\* (rising when ascending, falling when descending), and two rows of amounts
\* -x and +x rank equally: in both orders they stay in the order of the input.
C12_SortByAbsoluteAmount ==
  sortField = "amount" =>
    /\ \A i \in 2..Len(filteredAndSorted) :
         C12_ordered(Abs(filteredAndSorted[i - 1].amount),
                     Abs(filteredAndSorted[i].amount))
    /\ \A i, j \in 1..Len(filteredAndSorted) :
         (i < j /\ filteredAndSorted[i].amount = -filteredAndSorted[j].amount)
           => positionOf(filteredAndSorted[i]) < positionOf(filteredAndSorted[j])

\* descending by amount: +x right before -x, and elsewhere -y right before +y
C12_Witness ==
  /\ sortField = "amount" /\ sortOrder = "desc"
  /\ \E i, j \in 2..Len(filteredAndSorted) :
       /\ filteredAndSorted[i - 1].amount > 0
       /\ filteredAndSorted[i].amount = -filteredAndSorted[i - 1].amount
       /\ filteredAndSorted[j - 1].amount < 0
       /\ filteredAndSorted[j].amount = -filteredAndSorted[j - 1].amount

\* the comparator returns 0 for a and b
C13_sameKey(a, b) ==
  IF sortField = "date" THEN a.date = b.date
  ELSE IF sortField = "amount" THEN Abs(a.amount) = Abs(b.amount)
  ELSE IF sortField = "description" THEN sameIgnoringCase(a.description, b.description)
  ELSE sameIgnoringCase(categoryOrEmpty(a), categoryOrEmpty(b))

\* C13: rows whose sort keys compare equal are shown in the order they have in
\* the input list, whatever the sort field and in both sort orders.
C13_StableSort ==
  \A i, j \in 1..Len(filteredAndSorted) :
    (i < j /\ C13_sameKey(filteredAndSorted[i], filteredAndSorted[j]))
      => positionOf(filteredAndSorted[i]) < positionOf(filteredAndSorted[j])

\* descending by category: three rows of one key (Food, Food, food) among
\* rows of other keys
C13_Witness ==
  /\ sortField = "category" /\ sortOrder = "desc"
  /\ \E i \in 3..Len(filteredAndSorted) :
       /\ C13_sameKey(filteredAndSorted[i - 2], filteredAndSorted[i - 1])
       /\ C13_sameKey(filteredAndSorted[i - 1], filteredAndSorted[i])
       /\ filteredAndSorted[i - 1].category # filteredAndSorted[i].category
  /\ \E i, j \in 1..Len(filteredAndSorted) :
       ~C13_sameKey(filteredAndSorted[i], filteredAndSorted[j])

C14_flipped(order) == IF order = "asc" THEN "desc" ELSE "asc"

C14_risingByDate(rows) ==
  \A i \in 2..Len(rows) :
    ~keyBefore(<<rows[i].date.y, rows[i].date.m * 100 + rows[i].date.d>>,
               <<rows[i - 1].date.y, rows[i - 1].date.m * 100 + rows[i - 1].date.d>>)

\* C14: the table starts sorted by date, descending; a click on the header of
\* another field makes it the sort field, ascending; a click on the header of
\* the sort field keeps the field and flips the order; so the first click on
\* Date in the initial sort state shows the rows with rising dates.
C14_HandleSort ==
  /\ sortField = "date" /\ sortOrder = "desc"
  /\ [][\A field \in SortFields :
          handleSort(field) =>
            /\ sortField' = field
            /\ sortOrder' = (IF sortField = field THEN C14_flipped(sortOrder) ELSE "asc")
            /\ (sortField = "date" /\ sortOrder = "desc" /\ field = "date")
                 => C14_risingByDate(filteredAndSorted')]_vars

\* sorted by date, ascending, with rows of different dates
C14_Witness ==
  /\ sortField = "date" /\ sortOrder = "asc"
  /\ Len(filteredAndSorted) >= 2
  /\ filteredAndSorted[1].date # filteredAndSorted[Len(filteredAndSorted)].date
  /\ C14_risingByDate(filteredAndSorted)

\* C15: filtering is idempotent: for the list and the filter settings of every
\* state, the filter applied to its own output gives that output again, and
\* the filter applied to the rows shown keeps every one of them.
C15_FilterIdempotent ==
  LET once == filterTransactions(transactions, searchTerm, categoryFilter, typeFilter)
  IN  /\ filterTransactions(once, searchTerm, categoryFilter, typeFilter) = once
      /\ LET again == filterTransactions(filteredAndSorted, searchTerm,
                                         categoryFilter, typeFilter)
         IN  {again[i] : i \in 1..Len(again)} = shownRows

\* all three filters set, some rows pass and some do not
C15_Witness ==
  /\ searchTerm # <<>> /\ categoryFilter # <<>> /\ typeFilter # ""
  /\ Len(filteredAndSorted) > 0
  /\ Len(filteredAndSorted) < Len(transactions)

\* C16: no filter, sort, page or tab operation, and neither aggregation,
\* changes the list Home holds: it keeps its rows, their order and every
\* field of every row (a row without a category stays without one), and the
\* summary stays as it is.
C16_NoSideEffects ==
  [][transactions' = transactions /\ summary' = summary]_vars

\* the table shows every row of a list in another order than the list has,
\* a row without a category among them
C16_Witness ==
  /\ tableMounted
  /\ sortField # "date"
  /\ Len(filteredAndSorted) = Len(transactions)
  /\ filteredAndSorted # transactions
  /\ \E i \in 1..Len(transactions) : ~hasCategory(transactions[i])

\* a call has settled after a response that is not 2xx
C17_failed ==
  /\ apiCall.phase = "settled"
  /\ apiCall.outcome.kind = "response"
  /\ apiCall.outcome.response.status \notin 200..299

C17_isApiError ==
  /\ apiCall.result.kind = "rejected"
  /\ apiCall.result.error.name = "ApiError"
  /\ apiCall.result.error.status = apiCall.outcome.response.status

C17_field(body, name) == name \in DOMAIN body /\ body[name] # ""

\* C17 as stated: a response that is not 2xx raises an ApiError with the
\* status of the response, whose message is the message or the detail field
\* of the JSON body, and the status text when the body is no JSON.
C17_ApiErrorOriginal ==
  C17_failed =>
    LET response == apiCall.outcome.response
        body == response.body
        message == apiCall.result.error.message
    IN  /\ C17_isApiError
        /\ IF body = NotJson THEN message = response.statusText
           ELSE \/ "message" \in DOMAIN body /\ message = body.message
                \/ "detail" \in DOMAIN body /\ message = body.detail

\* C17: a response that is not 2xx raises an ApiError with the status of the
\* response.  Its message is the message field of the JSON body if that is
\* not empty, else the detail field if that is not empty, else "HTTP" and the
\* status; when the body is no JSON, or is null, it is the status text, and
\* "HTTP" and the status when the status text is empty.
C17_ApiError ==
  C17_failed =>
    LET response == apiCall.outcome.response
        body == response.body
        message == apiCall.result.error.message
    IN  /\ C17_isApiError
        /\ IF body \in {NotJson, Null}
           THEN message = (IF response.statusText # "" THEN response.statusText
                           ELSE httpStatus(response.status))
           ELSE IF C17_field(body, "message") THEN message = body.message
           ELSE IF C17_field(body, "detail") THEN message = body.detail
           ELSE message = httpStatus(response.status)

\* a 404 whose body has both fields, raised with the message field
C17_Witness ==
  /\ C17_failed
  /\ apiCall.outcome.response.status = 404
  /\ {"message", "detail"} \subseteq DOMAIN apiCall.outcome.response.body
  /\ apiCall.outcome.response.body.message # ""
  /\ apiCall.result.error = ApiError(404, apiCall.outcome.response.body.message)

\* C18: when the fetch of an API client call fails at the network level, the
\* call fails with that very error, which is no ApiError, and the response
\* handler does not run; this is so for each of the five calls.
C18_TransportErrorPropagates ==
  (apiCall.phase = "settled" /\ apiCall.outcome.kind = "rejected") =>
    /\ apiCall.result.kind = "rejected"
    /\ apiCall.result.error = apiCall.outcome.error
    /\ apiCall.result.error.name # "ApiError"
    /\ ~apiCall.result.handled

\* getTimelineAnalytics has failed with the TypeError of its fetch
C18_Witness ==
  /\ apiCall.phase = "settled"
  /\ apiCall.name = "getTimelineAnalytics"
  /\ apiCall.outcome.kind = "rejected"
  /\ apiCall.result.error = [name |-> "TypeError", message |-> "Failed to fetch"]

\* the answer o is not OK and its JSON body has a detail text
C19_hasDetail(o) ==
  /\ o.kind = "response" /\ ~o.ok /\ o.json
  /\ "detail" \in DOMAIN o.body /\ o.body.detail # ""

\* C19: when the upload request is answered with a status that is not OK and
\* a JSON body with a detail text (400 and "Invalid file format" among them),
\* the error shown is exactly that text, and onUploadSuccess is not called:
\* the list, the summary and the tab of Home stay as they are.
C19_DetailIsShown ==
  [][\A r \in inflight, o \in Outcomes :
       (settle(r, o) /\ C19_hasDetail(o)) =>
         /\ error' = o.body.detail
         /\ UNCHANGED <<transactions, summary, activeTab>>]_vars

C20_replied == proxy.phase = "replied"

C20_backendAnswered ==
  C20_replied /\ "outcome" \in DOMAIN proxy /\ proxy.outcome.kind = "response"

\* the forward threw: the form data could not be read, or the fetch failed
C20_forwardThrew ==
  /\ C20_replied
  /\ \/ proxy.request = NotMultipart
     \/ "outcome" \in DOMAIN proxy /\ proxy.outcome.kind = "rejected"

C21_initialises == runThemeEffects /\ themeHook.pending = "mount"

\* C21 as stated: the hook initialises the theme to the stored value when
\* there is one, else to dark when the system prefers dark, else to light.
C21_InitialThemeOriginal ==
  [][C21_initialises =>
       themeHook'.theme = (IF storedTheme # NoItem THEN storedTheme
                           ELSE IF prefersDark THEN "dark" ELSE "light")]_vars

\* C21: the hook initialises the theme to the stored value when there is one
\* that is not the empty string, else to dark when the system prefers dark,
\* else to light; such a stored value wins over the system preference.
C21_InitialTheme ==
  [][C21_initialises =>
       themeHook'.theme = (IF storedTheme \notin {NoItem, ""} THEN storedTheme
                           ELSE IF prefersDark THEN "dark" ELSE "light")]_vars

\* the theme is light right after the first effects although the system
\* prefers dark: the stored value has won
C21_Witness ==
  /\ themeHook.mounted
  /\ themeHook.theme = "light"
  /\ prefersDark
  /\ storedTheme = "light"
  /\ rootDark = FALSE

\* C22: whenever the hook is mounted and the effects of its last render have
\* run, the item "theme" of localStorage is the theme, and the document root
\* has the class "dark" exactly when the theme is dark.
C22_StoredAndClassFollowTheme ==
  (themeHook.mounted /\ themeHook.pending = "none") =>
    /\ storedTheme = themeHook.theme
    /\ rootDark <=> themeHook.theme = "dark"

\* the theme is light, stored as light, and the class is gone
C22_lightSettled ==
  /\ themeHook.mounted /\ themeHook.pending = "none"
  /\ themeHook.theme = "light" /\ storedTheme = "light" /\ ~rootDark

\* a theme that went from dark to light has been written and the class removed:
\* the step into this state is a run of the second effect alone
C22_Witness == C22_lightSettled /\ prefersDark

\* C27: in every state of the hook the theme is "light" or "dark".
C27_ThemeIsLightOrDark ==
  themeHook.mounted => themeHook.theme \in Themes

\* the answer o has status 400 and the JSON body {message: "Invalid file
\* format"}, without a detail field
C23_messageOnly(o) ==
  /\ o.kind = "response" /\ ~o.ok /\ o.status = 400 /\ o.json
  /\ o.body = [message |-> "Invalid file format"]

\* C23: when the upload request of an UploadZone that is still mounted is
\* answered with status 400 and the JSON body {message: "Invalid file format"},
\* the error shown is "Upload failed: 400".
C23_StatusIsShown ==
  [][\A r \in inflight, o \in Outcomes :
       (settle(r, o) /\ r.live /\ C23_messageOnly(o)) =>
         error' = "Upload failed: 400"]_vars

\* the text the claim compares for a row
C24_key(t) ==
  IF sortField = "description" THEN t.description
  ELSE IF "category" \in DOMAIN t THEN t.category
  ELSE <<>>

\* a is before b in the order of the code units of the texts with every
\* capital letter replaced by its small letter
C24_before(a, b) ==
  \E i \in 1..Len(b) :
    /\ \A j \in 1..(i - 1) :
         j <= Len(a) /\ toLowerCaseChar[a[j]] = toLowerCaseChar[b[j]]
    /\ \/ i > Len(a)
       \/ CharCode[toLowerCaseChar[a[i]]] < CharCode[toLowerCaseChar[b[i]]]

C24_noCategory(t) == "category" \notin DOMAIN t \/ t.category = <<>>

\* C24: when the sort field is category or description, the rows are in the
\* order of their keys compared without regard to letter case (rising when
\* ascending, falling when descending), and by category a row without a
\* category comes before every row with one when ascending and after every
\* such row when descending.
C24_SortIgnoringCase ==
  sortField \in {"category", "description"} =>
    /\ \A i \in 2..Len(filteredAndSorted) :
         IF sortOrder = "asc"
         THEN ~C24_before(C24_key(filteredAndSorted[i]),
                          C24_key(filteredAndSorted[i - 1]))
         ELSE ~C24_before(C24_key(filteredAndSorted[i - 1]),
                          C24_key(filteredAndSorted[i]))
    /\ sortField = "category" =>
         \A i, j \in 1..Len(filteredAndSorted) :
           (C24_noCategory(filteredAndSorted[i])
              /\ ~C24_noCategory(filteredAndSorted[j]))
             => IF sortOrder = "asc" THEN i < j ELSE i > j

\* ascending by category: a row without a category first, and "food" right
\* before "Food", which the order of the code units alone would not allow
C24_Witness ==
  /\ sortField = "category" /\ sortOrder = "asc"
  /\ Len(filteredAndSorted) > 2
  /\ "category" \notin DOMAIN filteredAndSorted[1]
  /\ \E i \in 2..Len(filteredAndSorted) :
       /\ C24_key(filteredAndSorted[i - 1]) = sFoodLower
       /\ C24_key(filteredAndSorted[i]) = sFood

\* C25: the rows of the category aggregation are in non-increasing order of
\* amount (each row's amount is at least the amount of the row after it), and
\* each category is in exactly one row.
C25_CategoriesByAmount ==
  dashboard =>
    /\ \A i \in 2..Len(categoryData) :
         categoryData[i - 1].amount >= categoryData[i].amount
    /\ \A i, j \in 1..Len(categoryData) :
         categoryData[i].category = categoryData[j].category => i = j
    /\ \A k \in 1..Len(transactions) :
         transactions[k].type = "debit" =>
           \E i \in 1..Len(categoryData) :
             categoryData[i].category = C7_groupOf(transactions[k])

\* the category of the first debit row of the list is not the first row of
\* the output: the sort has moved a larger category in front of it
C25_Witness ==
  /\ dashboard
  /\ Len(categoryData) >= 2
  /\ categoryData[1].amount > categoryData[2].amount
  /\ \E k \in 1..Len(transactions) :
       /\ transactions[k].type = "debit"
       /\ \A h \in 1..(k - 1) : transactions[h].type # "debit"
       /\ C7_groupOf(transactions[k]) # categoryData[1].category

\* the months, in local time, that have a transaction
C26_buckets ==
  {monthKey(transactions[k].date, tzOffset) : k \in 1..Len(transactions)}

\* C26: an empty transaction list gives an empty category list and an empty
\* timeline, and the timeline chart is rendered only when the timeline has at
\* least 2 points, never for 0 or 1 month buckets.
C26_EmptyAndTimelineGuard ==
  dashboard =>
    /\ transactions = <<>> => (categoryData = <<>> /\ timelineData = <<>>)
    /\ timelineChartShown =>
         (Len(timelineData) >= 2 /\ Cardinality(C26_buckets) >= 2)

\* a dashboard over rows of one month: one point, and no chart
C26_Witness ==
  /\ dashboard
  /\ Len(transactions) >= 2
  /\ Len(timelineData) = 1
  /\ ~timelineChartShown

\* a dashboard over the empty list
C26_WitnessEmpty ==
  dashboard /\ transactions = <<>> /\ categoryData = <<>> /\ ~timelineChartShown

\* C28: in every state of Home that renders, the active tab has content to
\* show: the list is not empty whenever the tab is "transactions", and there
\* is a summary whenever the tab is "analytics".
C28_ActiveTabHasContent ==
  ~crashed =>
    /\ activeTab = "transactions" => transactions # <<>>
    /\ activeTab = "analytics" => truthy(summary)

\* C29: under any interleaving of upload clicks, tab switches and answers,
\* the list and the summary of Home are those of the successful upload that
\* was started last: a successful answer is applied only when its request was
\* started after the request whose answer Home holds.
C29_NoStaleOverwrite ==
  [][\A r \in inflight, o \in Outcomes :
       (settle(r, o) /\ uploadResult(o).success) => r.id > applied]_vars

C30_inFlight(id) == \E r \in inflight : r.id = id

\* the state right after a request has settled is one of the two outcomes
C30_outcome ==
  [][\A r \in inflight, o \in Outcomes :
       settle(r, o) =>
         IF uploadResult(o).success
         THEN ~isUploading' /\ file' = Null /\ error' = NoError
         ELSE /\ r.live => ~isUploading'
              /\ error' # NoError
              /\ file' = file
              /\ UNCHANGED <<transactions, summary, activeTab>>]_vars

\* a request in flight is settled, unless the page has crashed
C30_finishes ==
  \A id \in 1..MaxUploads :
    C30_inFlight(id) ~> (~C30_inFlight(id) \/ crashed)

\* C30: every upload that was started finishes once its request resolves or
\* rejects, and then isUploading is false and either onUploadSuccess was
\* called, the file is cleared and no error is shown, or onUploadSuccess was
\* not called, an error message is set and the file is kept.
C30_UploadFinishes == C30_outcome /\ C30_finishes

=============================================================================
